---- MODULE Spec2Model ----
(***************************************************************************)
(* The cycling-characters animation of mods (cyclingchars.go): a row of    *)
(* characters that show '.', then random glyphs, then (for the label) the  *)
(* final rune, followed by an ellipsis spinner.                            *)
(*                                                                         *)
(* Runes are code points (integers), strings are sequences of bytes,       *)
(* durations and instants are milliseconds.                                *)
(***************************************************************************)
EXTENDS Integers, Sequences, FiniteSets

----------------------------------------------------------------------------
(* Bounds of the model *)

\* Largest placeholder count requested in the animated runs, beside
\* minRampSize.
MaxCount == 1
\* Random draws of delays and lifetimes are taken below this.
MaxDraw == 2
\* Random draws of alphabet indices are taken below this.
MaxGlyphs == 1
\* Number of independent random draws of one construction; later draws
\* repeat the earlier ones.
MaxTape == 3
\* The clock is observed up to this many milliseconds after start.
MaxTime == 120
\* the longest text of makeGradientText, in bytes
MaxText == 3
\* the longest ramp of makeGradientRamp
MaxLength == 4
\* The clock moves in steps of this many milliseconds.
Quantum == 60
\* Width of the machine integer (uint, int) in bits, scaled down.
IntBits == 16

----------------------------------------------------------------------------
(* Program constants *)

Millisecond == 1
Second == 1000

charCyclingFPS == Second \div 22
maxCyclingChars == 120
minRampSize == 3

\* []rune("0123456789abcdefABCDEF~!@#$£€%^&*()+=_")
charRunes ==
  << 48, 49, 50, 51, 52, 53, 54, 55, 56, 57,
     97, 98, 99, 100, 101, 102,
     65, 66, 67, 68, 69, 70,
     126, 33, 64, 35, 36, 163, 8364, 37, 94, 38, 42, 40, 41, 43, 61, 95 >>

\* ellipsisSpinner.Frames, each frame a string of '.' runes
ellipsisFrames == << <<>>, <<46>>, <<46, 46>>, <<46, 46, 46>> >>

charInitialState == 0
charCyclingState == 1
charEndOfLifeState == 2

\* The rune '.' written by Update for a character in its initial state.
Dot == 46
\* The rune ' ' of the gap between the placeholders and the label.
Space == 32
\* utf8.RuneError, what an invalid byte decodes to.
RuneError == 65533
\* const minSize of makeGradientText
minSize == 3

----------------------------------------------------------------------------
(* Strings *)

Range(s) == {s[i] : i \in DOMAIN s}

Min(a, b) == IF a < b THEN a ELSE b

IsCont(s, i, lo, hi) == i <= Len(s) /\ s[i] >= lo /\ s[i] <= hi

\* The width in bytes of the encoding that starts at s[1] (1 for an
\* invalid byte), as the conversion []rune(string) decodes it.
runeWidth(s) ==
  LET b == s[1]
      lo2 == IF b = 224 THEN 160 ELSE IF b = 240 THEN 144 ELSE 128
      hi2 == IF b = 237 THEN 159 ELSE IF b = 244 THEN 143 ELSE 191
  IN  IF b < 128 THEN 1
      ELSE IF b >= 194 /\ b <= 223 /\ IsCont(s, 2, 128, 191) THEN 2
      ELSE IF b >= 224 /\ b <= 239 /\ IsCont(s, 2, lo2, hi2)
              /\ IsCont(s, 3, 128, 191) THEN 3
      ELSE IF b >= 240 /\ b <= 244 /\ IsCont(s, 2, lo2, hi2)
              /\ IsCont(s, 3, 128, 191) /\ IsCont(s, 4, 128, 191) THEN 4
      ELSE 1

firstRune(s) ==
  LET w == runeWidth(s)
  IN  IF w = 1 THEN (IF s[1] < 128 THEN s[1] ELSE RuneError)
      ELSE IF w = 2 THEN (s[1] - 192) * 64 + (s[2] - 128)
      ELSE IF w = 3 THEN (s[1] - 224) * 4096 + (s[2] - 128) * 64 + (s[3] - 128)
      ELSE (s[1] - 240) * 262144 + (s[2] - 128) * 4096
             + (s[3] - 128) * 64 + (s[4] - 128)

RECURSIVE runes(_)
\* []rune(s): the runes of the byte string s.
runes(s) ==
  IF s = <<>> THEN <<>>
  ELSE <<firstRune(s)>> \o runes(SubSeq(s, runeWidth(s) + 1, Len(s)))

----------------------------------------------------------------------------
(* cyclingChar *)

\* time.Time.Add
Add(t, d) == t + d
\* time.Time.Before, time.Time.After
Before(t, u) == t < u
After(t, u) == t > u

\* cyclingChar.state, with the reading of time.Now() passed in
state(c, start, now) ==
  IF Before(now, Add(start, c.initialDelay)) THEN charInitialState
  ELSE IF c.finalValue > 0 /\ After(now, Add(start, c.initialDelay))
       THEN charEndOfLifeState
  ELSE charCyclingState

\* rand.Intn(n): the values a draw may take
Intn(n) == 0 .. (Min(n, MaxGlyphs) - 1)

\* randomRune drawing from an alphabet that also holds '.'
randomRune_WithDot ==
  {charRunes[k + 1] : k \in Intn(Len(charRunes))} \cup {Dot}

\* cyclingChar.randomRune: the runes a draw may yield
randomRune == {charRunes[k + 1] : k \in Intn(Len(charRunes))}

----------------------------------------------------------------------------
(* newCyclingChars *)

\* int(initialCharsSize): conversion of a uint to an int of the same width
toInt(u) == IF u >= 2 ^ (IntBits - 1) THEN u - 2 ^ IntBits ELSE u

\* n after the clamp to maxCyclingChars
clampedSize(initialCharsSize) ==
  LET n == toInt(initialCharsSize)
  IN  IF n > maxCyclingChars THEN maxCyclingChars ELSE n

\* the gap prepended whatever n is
gapFor_Always(n) == <<Space>>

\* gap := " "; if n == 0 { gap = "" }
gapFor(n) == IF n = 0 THEN <<>> ELSE <<Space>>

\* c.label = []rune(gap + label)
labelFor(n, label) == runes(gapFor(n) \o label)

\* makeDelay(a, b) for a draw of rand.Int31n(a)
makeDelay(draw, b) == draw * (Millisecond * b)

\* The random source of one construction: draw number k (from 0) of
\* rand.Int31n(a)
Tapes == [0 .. (MaxTape - 1) -> 0 .. (MaxDraw - 1)]
Int31n(tape, k, a) == tape[k % MaxTape] % a

makeInitialDelay(tape, k) == makeDelay(Int31n(tape, k, 8), 60)

\* termenv profiles reported by the renderer
Profiles == {"TrueColor", "Ascii"}

\* the blend parameter running up to the end colour, i/(length-1)
makeGradientRamp_Inclusive(length) ==
  [i \in 1 .. length |-> <<i - 1, IF length > 1 THEN length - 1 ELSE 1>>]

\* makeGradientRamp(length): colour i is the blend of the two brand colours
\* at parameter i/length, kept as the pair <<i, length>>
makeGradientRamp(length) == [i \in 1 .. length |-> <<i - 1, length>>]

\* r.NewStyle().Foreground(color), the style styles.cyclingChars, and no
\* style (s == nil in View)
Foreground(color) == [kind |-> "foreground", num |-> color[1], den |-> color[2]]
cyclingCharsStyle == [kind |-> "styles.cyclingChars", num |-> 0, den |-> 0]
NoStyle == [kind |-> "none", num |-> 0, den |-> 0]

\* the ramp built only above minRampSize
rampFor_Above(n, profile) ==
  IF n > minRampSize /\ profile = "TrueColor"
  THEN [i \in 1 .. n |-> Foreground(makeGradientRamp(n)[i])]
  ELSE <<>>

\* c.ramp as built by newCyclingChars: a foreground style per ramp colour
rampFor(n, profile) ==
  IF n >= minRampSize /\ profile = "TrueColor"
  THEN [i \in 1 .. n |-> Foreground(makeGradientRamp(n)[i])]
  ELSE <<>>

\* c.chars as built by newCyclingChars (n >= 0)
charsFor(n, lab, tape) ==
  [i \in 1 .. (n + Len(lab)) |->
     IF i <= n
     THEN [finalValue |-> -1, currentValue |-> 0,
           initialDelay |-> makeInitialDelay(tape, i - 1), lifetime |-> 0]
     ELSE [finalValue |-> lab[i - n], currentValue |-> 0,
           initialDelay |-> makeInitialDelay(tape, n + 2 * (i - n - 1)),
           lifetime |-> makeDelay(Int31n(tape, n + 2 * (i - n - 1) + 1, 5), 180)]]

\* make([]cyclingChar, n+len(c.label)) with a negative length, or
\* c.chars[i+n] with a negative index, stops the program.
newPanics(n, lab) == n + Len(lab) < 0 \/ (n < 0 /\ Len(lab) > 0)

----------------------------------------------------------------------------
(* State *)

VARIABLES
  pc,              \* "new", "constructed", "running" or "panic"
  args,            \* the arguments of newCyclingChars
  now,             \* the clock, time.Now()
  start,           \* cyclingChars.start
  chars,           \* cyclingChars.chars
  ramp,            \* cyclingChars.ramp
  label,           \* cyclingChars.label
  ellipsis,        \* cyclingChars.ellipsis: the spinner's frame index
  ellipsisStarted, \* cyclingChars.ellipsisStarted
  pendingStep,     \* stepCharsMsg ticks scheduled and not yet delivered
  pendingSpinner,  \* spinner.TickMsg ticks scheduled and not yet delivered
  tickTime,        \* the clock when the latest stepCharsMsg was taken up
  startCmds,       \* how many Updates returned the ellipsis-start command
  str,             \* the argument str of makeGradientText, as UTF-8 bytes
  rampLength,      \* the argument length of makeGradientRamp
  gradientText,    \* what makeGradientText(baseStyle, str) returned
  gradientRamp     \* what makeGradientRamp(rampLength) returned

vars == << pc, args, now, start, chars, ramp, label, ellipsis, ellipsisStarted,
           pendingStep, pendingSpinner, tickTime, startCmds,
           str, rampLength, gradientText, gradientRamp >>

gradient == << str, rampLength, gradientText, gradientRamp >>

\* no call of makeGradientText has returned
NoText == [panic |-> FALSE, styled |-> FALSE, plain |-> <<>>, glyphs |-> <<>>]

model == << start, chars, ramp, label, ellipsis, ellipsisStarted >>
host == << pendingStep, pendingSpinner, tickTime, startCmds >>

\* Labels of the animated runs, as UTF-8 bytes: "", "G", "Go", "\x00"
Labels == { <<>>, <<71>>, <<71, 111>>, <<0>> }
Loading == <<76, 111, 97, 100, 105, 110, 103>>

\* The arguments of the animated runs: the small counts with every label,
\* and the smallest count that gets a gradient ramp
Inputs ==
  [initialCharsSize : 0 .. MaxCount, label : Labels, profile : {"TrueColor"}]
    \cup {[initialCharsSize |-> minRampSize, label |-> <<71>>, profile |-> "TrueColor"]}

InitWith(inputs) ==
  /\ pc = "new"
  /\ args \in inputs
  /\ now = 0
  /\ start = 0
  /\ chars = <<>>
  /\ ramp = <<>>
  /\ label = <<>>
  /\ ellipsis = 0
  /\ ellipsisStarted = FALSE
  /\ pendingStep = 0
  /\ pendingSpinner = 0
  /\ tickTime = -1
  /\ startCmds = 0
  /\ str = <<>>
  /\ rampLength = 0
  /\ gradientText = NoText
  /\ gradientRamp = <<>>

\* newCyclingChars(initialCharsSize, label, r, s)
newCyclingChars ==
  /\ pc = "new"
  /\ LET n == clampedSize(args.initialCharsSize)
         lab == labelFor(n, args.label)
     IN  IF newPanics(n, lab)
         THEN /\ pc' = "panic"
              /\ UNCHANGED << start, chars, ramp, label >>
         ELSE /\ pc' = "constructed"
              /\ start' = now
              /\ label' = lab
              /\ ramp' = rampFor(n, args.profile)
              /\ \E tape \in Tapes : chars' = charsFor(n, lab, tape)
  /\ UNCHANGED << args, now, ellipsis, ellipsisStarted >>
  /\ UNCHANGED host
  /\ UNCHANGED gradient

\* time.Now() moves on
ClockAdvance ==
  /\ pc \in {"constructed", "running"}
  /\ now + Quantum <= start + MaxTime
  /\ now' = now + Quantum
  /\ UNCHANGED << pc, args >>
  /\ UNCHANGED model
  /\ UNCHANGED host
  /\ UNCHANGED gradient

\* No tick is delivered until every initial delay makeInitialDelay can draw
\* has passed: time.Now() is beyond start + 7 * 60 ms.
ClockLate ==
  /\ pc \in {"constructed", "running"}
  /\ now <= start + MaxTime
  /\ now' = start + makeDelay(7, 60) + Quantum
  /\ UNCHANGED << pc, args >>
  /\ UNCHANGED model
  /\ UNCHANGED host
  /\ UNCHANGED gradient

\* cyclingChars.Init: returns stepChars()
InitCmd ==
  /\ pc = "constructed"
  /\ pc' = "running"
  /\ pendingStep' = pendingStep + 1
  /\ UNCHANGED << args, now, pendingSpinner, tickTime, startCmds >>
  /\ UNCHANGED model
  /\ UNCHANGED gradient

----------------------------------------------------------------------------
(* cyclingChars.Update *)

\* The clock readings of one Update: the clock moves on at most once while
\* the tick is handled, just before reading d (from 1); d = 0: it does not.
Drifts(reads) == 0 .. reads
readAt(d, r) == IF d # 0 /\ d <= r THEN now + Quantum ELSE now

\* The first loop of case stepCharsMsg: the value written to character i,
\* read at clock t, rnd being the rune randomRune() drew
stepValue(c, st, rnd) ==
  IF st = charInitialState THEN Dot
  ELSE IF st = charCyclingState THEN rnd
  ELSE c.finalValue

\* The second loop: the number of characters in end-of-life state, the
\* clock read again for each
eolCount(d) ==
  Cardinality({i \in 1 .. Len(chars) :
     state(chars[i], start, readAt(d, Len(chars) + i)) = charEndOfLifeState})

\* eol compared with the number of all characters
labelResolved_AllChars(eol) == eol = Len(chars)

\* eol compared with <= in place of ==
labelResolved_AtMost(eol) == eol <= Len(label)

\* if eol == len(c.label)
labelResolved(eol) == eol = Len(label)

\* ellipsisStarted assigned the outcome of the test on every tick
startedAfter_Assigned(started, starting) == starting

\* c.ellipsisStarted after the block "if !c.ellipsisStarted { ... }"
startedAfter(started, starting) == started \/ starting

\* the next stepChars() left out of the batch that starts the ellipsis
stepCmds_Dropped(starting) ==
  [step |-> IF starting THEN 0 ELSE 1,
   ellipsisStart |-> IF starting THEN 1 ELSE 0, spinner |-> 0]

\* tea.Batch(stepChars(), cmd)
stepCmds(starting) ==
  [step |-> 1, ellipsisStart |-> IF starting THEN 1 ELSE 0, spinner |-> 0]

\* case stepCharsMsg
UpdateStep ==
  /\ pc = "running"
  /\ pendingStep > 0
  /\ LET k == Len(chars)
         reads == IF ellipsisStarted THEN k ELSE 2 * k
     IN  \E d \in Drifts(reads) :
           LET st(i) == state(chars[i], start, readAt(d, i))
               cyc == {i \in 1 .. k : st(i) = charCyclingState}
               starting == ~ellipsisStarted /\ labelResolved(eolCount(d))
           IN  /\ (d = 0 \/ now + Quantum <= start + MaxTime)
               /\ \E rnd \in [cyc -> randomRune] :
                    chars' = [i \in 1 .. k |->
                      [chars[i] EXCEPT !.currentValue =
                         stepValue(chars[i], st(i),
                                   IF i \in cyc THEN rnd[i] ELSE 0)]]
               /\ ellipsisStarted' = startedAfter(ellipsisStarted, starting)
               /\ pendingStep' = pendingStep - 1 + stepCmds(starting).step
               /\ pendingSpinner' = pendingSpinner + stepCmds(starting).ellipsisStart
               /\ startCmds' = startCmds + stepCmds(starting).ellipsisStart
               /\ now' = readAt(d, reads)
  /\ tickTime' = now
  /\ UNCHANGED << pc, args, start, ramp, label, ellipsis >>
  /\ UNCHANGED gradient

\* spinner.Model.Update on the spinner's own tick: the next frame of
\* ellipsisSpinner.Frames, and the command of the next tick
nextFrame(frame) == (frame + 1) % Len(ellipsisFrames)

\* the spinner branch batching a stepChars() with the spinner's command
UpdateSpinner_AlsoSteps ==
  /\ pc = "running"
  /\ pendingSpinner > 0
  /\ ellipsis' = nextFrame(ellipsis)
  /\ pendingSpinner' = pendingSpinner - 1 + 1
  /\ pendingStep' = pendingStep + 1
  /\ UNCHANGED << pc, args, now, start, chars, ramp, label, ellipsisStarted,
                  tickTime, startCmds >>
  /\ UNCHANGED gradient

\* case spinner.TickMsg
UpdateSpinner ==
  /\ pc = "running"
  /\ pendingSpinner > 0
  /\ ellipsis' = nextFrame(ellipsis)
  /\ pendingSpinner' = pendingSpinner - 1 + 1
  /\ UNCHANGED << pc, args, now, start, chars, ramp, label, ellipsisStarted,
                  pendingStep, tickTime, startCmds >>
  /\ UNCHANGED gradient

\* default: any other message
UpdateOther ==
  /\ pc = "running"
  /\ UNCHANGED << pc, args, now >>
  /\ UNCHANGED host
  /\ UNCHANGED model
  /\ UNCHANGED gradient

----------------------------------------------------------------------------
(* cyclingChars.View *)

\* lipgloss.Style.Render(string(r)) and strings.Builder.WriteRune(r)
Render(style, r) == [style |-> style, rune |-> r]
WriteRune(r) == [style |-> NoStyle, rune |-> r]

\* the cycling style chosen with <= 0 in place of < 0
styleAt_NotPositive(i) ==
  IF Len(ramp) > 0 /\ i - 1 < Len(ramp) THEN ramp[i]
  ELSE IF chars[i].finalValue <= 0 THEN cyclingCharsStyle
  ELSE NoStyle

\* The style View picks for chars[i]
styleAt(i) ==
  IF Len(ramp) > 0 /\ i - 1 < Len(ramp) THEN ramp[i]
  ELSE IF chars[i].finalValue < 0 THEN cyclingCharsStyle
  ELSE NoStyle

viewChar(i) ==
  IF styleAt(i) # NoStyle THEN Render(styleAt(i), chars[i].currentValue)
  ELSE WriteRune(chars[i].currentValue)

\* c.ellipsis.View(): the current frame, unstyled
ellipsisView == [j \in 1 .. Len(ellipsisFrames[ellipsis + 1]) |->
                   WriteRune(ellipsisFrames[ellipsis + 1][j])]

View == [i \in 1 .. Len(chars) |-> viewChar(i)] \o ellipsisView

----------------------------------------------------------------------------
(* Specifications *)

Init == InitWith(Inputs)

Next ==
  \/ newCyclingChars
  \/ InitCmd
  \/ ClockAdvance
  \/ UpdateStep
  \/ UpdateSpinner
  \/ UpdateOther

Spec == Init /\ [][Next]_vars

\* The animated runs, with ticks that come late
NextLate == Next \/ ClockLate

SpecLate == Init /\ [][NextLate]_vars

----------------------------------------------------------------------------
(* Construction alone, over the whole range of the count *)

\* Requested counts: around minRampSize, around maxCyclingChars, and around
\* the point where a uint no longer fits an int
NewSizes ==
  {0, 1, 2, 3, 4, 119, 120, 121, 500,
   2 ^ (IntBits - 1) - 1, 2 ^ (IntBits - 1), 2 ^ IntBits - 1}

\* "", "Go", "Loading", "\x00", "é", and the invalid byte "\xff"
NewLabels == { <<>>, <<71, 111>>, Loading, <<0>>, <<195, 169>>, <<255>> }

NewProfiles == {"TrueColor", "ANSI256", "ANSI", "Ascii"}

InputsNew == [initialCharsSize : NewSizes, label : NewLabels, profile : NewProfiles]

InitNew == InitWith(InputsNew)

NextNew == newCyclingChars

SpecNew == InitNew /\ [][NextNew]_vars

----------------------------------------------------------------------------
(* The gradient helpers, called on their own *)

\* makeGradientText(baseStyle, str). The ramp has len(str) colours, one per
\* byte, and runes[i] is read for each of them: with fewer runes than bytes
\* the index is out of range and the call stops the program. Of the style
\* only the foreground colour is kept.
makeGradientText(s) ==
  IF Len(s) < minSize
  THEN [panic |-> FALSE, styled |-> FALSE, plain |-> s, glyphs |-> <<>>]
  ELSE LET rs == runes(s)
           colors == makeGradientRamp(Len(s))
       IN  IF Len(rs) < Len(colors)
           THEN [panic |-> TRUE, styled |-> FALSE, plain |-> <<>>,
                 glyphs |-> <<>>]
           ELSE [panic |-> FALSE, styled |-> TRUE, plain |-> <<>>,
                 glyphs |-> [i \in 1 .. Len(colors) |->
                               Render(Foreground(colors[i]), rs[i])]]

\* The bytes of the texts: 'G', 'o', and the two bytes of U+00E9
TextBytes == {71, 111, 195, 169}

RECURSIVE TextsOf(_)
TextsOf(n) ==
  IF n = 0 THEN { <<>> }
  ELSE TextsOf(n - 1)
         \cup {Append(t, b) : t \in {u \in TextsOf(n - 1) : Len(u) = n - 1},
                              b \in TextBytes}

Texts == TextsOf(MaxText)
Lengths == 0 .. MaxLength

InitGradient ==
  /\ pc = "call"
  /\ args = [initialCharsSize |-> 0, label |-> <<>>, profile |-> "TrueColor"]
  /\ now = 0
  /\ start = 0
  /\ chars = <<>>
  /\ ramp = <<>>
  /\ label = <<>>
  /\ ellipsis = 0
  /\ ellipsisStarted = FALSE
  /\ pendingStep = 0
  /\ pendingSpinner = 0
  /\ tickTime = -1
  /\ startCmds = 0
  /\ str \in Texts
  /\ rampLength \in Lengths
  /\ gradientText = NoText
  /\ gradientRamp = <<>>

CallGradientText ==
  /\ pc = "call"
  /\ pc' = "text"
  /\ gradientText' = makeGradientText(str)
  /\ UNCHANGED << args, now, str, rampLength, gradientRamp >>
  /\ UNCHANGED model
  /\ UNCHANGED host

CallGradientRamp ==
  /\ pc = "call"
  /\ pc' = "ramp"
  /\ gradientRamp' = makeGradientRamp(rampLength)
  /\ UNCHANGED << args, now, str, rampLength, gradientText >>
  /\ UNCHANGED model
  /\ UNCHANGED host

NextGradient ==
  \/ CallGradientText
  \/ CallGradientRamp

SpecGradient == InitGradient /\ [][NextGradient]_vars

----------------------------------------------------------------------------
(* Properties *)

Constructed == pc \in {"constructed", "running"}

\* The number of placeholder characters, and the positions of the label's
placeholderCount == Len(chars) - Len(label)
LabelIdx == {i \in 1 .. Len(chars) : i > placeholderCount}
PlaceholderIdx == {i \in 1 .. Len(chars) : i <= placeholderCount}

AllLabelEol(t) ==
  \A i \in LabelIdx : state(chars[i], start, t) = charEndOfLifeState

\* C1: ellipsisStarted is set by the first primary tick at which every label
\* character is in end-of-life state and by no earlier one: while it is true
\* every label character is in end-of-life state, and once a primary tick was
\* taken up at a clock reading at which they all were, it is true.
C1_StartedOnResolvingTick ==
  pc = "running" =>
    /\ ellipsisStarted => AllLabelEol(now)
    /\ (tickTime >= 0 /\ AllLabelEol(tickTime)) => ellipsisStarted

\* A label of several characters with different delays has resolved and the
\* ellipsis has started, placeholders being present.
C1_Witness ==
  /\ ellipsisStarted
  /\ placeholderCount > 0
  /\ \E i, j \in LabelIdx : chars[i].initialDelay < chars[j].initialDelay

\* C2: once ellipsisStarted is true, no step makes it false.
C2_StartedStaysTrue == [][ellipsisStarted => ellipsisStarted']_vars

\* The ellipsis has started, spinner ticks were handled and a primary tick
\* was handled after the clock moved on.
C2_Witness ==
  /\ ellipsisStarted
  /\ ellipsis > 0
  /\ tickTime > start
  /\ now > tickTime

\* C3: after a primary tick taken up later than start + initialDelay, every
\* character built from a label rune shows its finalValue.
C3_LabelShowsFinalValue ==
  \A i \in LabelIdx :
    (tickTime >= 0 /\ tickTime > start + chars[i].initialDelay)
      => chars[i].currentValue = chars[i].finalValue

\* C4 as claimed: after a primary tick taken up at start + initialDelay or
\* later, a placeholder shows a member of an alphabet of 40 symbols.
C4_AlphabetOfForty ==
  \A i \in PlaceholderIdx :
    (tickTime >= 0 /\ tickTime >= start + chars[i].initialDelay)
      => /\ chars[i].currentValue \in Range(charRunes)
         /\ Cardinality(Range(charRunes)) = 40

\* C4: after a primary tick taken up at start + initialDelay or later, a
\* placeholder shows a member of the alphabet, which has 38 symbols; it is
\* neither '.' nor its finalValue.
C4_AlphabetMember ==
  \A i \in PlaceholderIdx :
    (tickTime >= 0 /\ tickTime >= start + chars[i].initialDelay)
      => /\ chars[i].currentValue \in Range(charRunes)
         /\ Cardinality(Range(charRunes)) = 38
         /\ chars[i].currentValue # Dot
         /\ chars[i].currentValue # chars[i].finalValue

\* A placeholder with a delay has been ticked at its delay or later, while
\* another placeholder has not.
C4_Witness ==
  /\ tickTime >= 0
  /\ \E i \in PlaceholderIdx :
       /\ chars[i].initialDelay > 0
       /\ tickTime >= start + chars[i].initialDelay
       /\ chars[i].currentValue \in Range(charRunes)

\* C5: for every requested count of the unsigned range, construction
\* completes and yields min(count, maxCyclingChars) placeholders.
C5_CountClamped ==
  pc # "new" =>
    /\ pc = "constructed"
    /\ Cardinality({i \in 1 .. Len(chars) : chars[i].finalValue < 0})
         = Min(args.initialCharsSize, maxCyclingChars)

\* C6: the characters are min(count, maxCyclingChars) forever-cycling ones,
\* then a gap character exactly when there are placeholders, then one
\* character per rune of the label in order; no tick changes that. Count 0
\* and label "Loading" give 7 characters, the first being 'L'.
C6_Layout ==
  /\ Constructed =>
       LET n == Min(args.initialCharsSize, maxCyclingChars)
           gap == IF n > 0 THEN 1 ELSE 0
           text == runes(args.label)
       IN  /\ Len(chars) = n + gap + Len(text)
           /\ Len(chars) = placeholderCount + Len(label)
           /\ placeholderCount = n
           /\ \A i \in 1 .. n : chars[i].finalValue = -1
           /\ n > 0 => chars[n + 1].finalValue = Space
           /\ \A j \in 1 .. Len(text) : chars[n + gap + j].finalValue = text[j]
           /\ \A j \in 1 .. Len(label) : chars[n + j].finalValue = label[j]
  /\ \A tape \in Tapes :
       LET cs == charsFor(clampedSize(0), labelFor(clampedSize(0), Loading), tape)
       IN  Len(cs) = 7 /\ cs[1].finalValue = 76

\* Primary ticks were handled, with no placeholders and so no gap, and the
\* characters show other values than at construction.
C6_Witness ==
  /\ pc = "running"
  /\ tickTime > start
  /\ args.initialCharsSize = 0
  /\ Len(chars) = 2
  /\ \E i \in 1 .. Len(chars) : chars[i].currentValue = chars[i].finalValue

\* C7: while the ellipsis text is not empty, or a spinner tick is scheduled,
\* ellipsisStarted is true and every label character is in end-of-life
\* state.
C7_EllipsisAfterLabel ==
  (ellipsisView # <<>> \/ pendingSpinner > 0 \/ ellipsis # 0)
    => (ellipsisStarted /\ AllLabelEol(now))

\* The ellipsis shows its longest frame, a spinner tick being scheduled.
C7_Witness ==
  /\ Len(ellipsisView) = 3
  /\ pendingSpinner > 0
  /\ Len(label) > 1

\* C8: from Init on exactly one primary tick is scheduled, before it none;
\* the ellipsis-start command has been returned once if ellipsisStarted is
\* true and never otherwise, and there is then one spinner tick scheduled.
C8_OnePrimaryTick ==
  /\ pc = "running" => pendingStep = 1
  /\ pc \in {"new", "constructed", "panic"} => pendingStep = 0
  /\ startCmds = IF ellipsisStarted THEN 1 ELSE 0
  /\ pendingSpinner = startCmds

\* Primary ticks went on after the tick that started the ellipsis.
C8_Witness ==
  /\ pc = "running"
  /\ startCmds = 1
  /\ pendingStep = 1
  /\ \E i \in LabelIdx : tickTime > start + chars[i].initialDelay + Quantum - 1

\* C9: the ramp is populated exactly when the clamped count is at least
\* minRampSize and the profile is TrueColor; it then holds one style per
\* placeholder; construction and View succeed either way.
C9_RampIffTrueColor ==
  Constructed =>
    LET n == Min(args.initialCharsSize, maxCyclingChars)
    IN  /\ (Len(ramp) > 0) <=> (n >= 3 /\ args.profile = "TrueColor")
        /\ Len(ramp) > 0 => (Len(ramp) = n /\ Len(ramp) = placeholderCount)
        /\ Len(View) = Len(chars)

\* A ramp of maxCyclingChars styles for a larger request, and no ramp for
\* the same request without true colour.
C9_Witness ==
  /\ Constructed
  /\ args.initialCharsSize = 500
  /\ Len(ramp) = maxCyclingChars

\* C10: View is, in order, every character's current glyph, a placeholder's
\* styled with the gradient style of its position when there is a ramp and
\* with the cycling style otherwise, a label or gap glyph unstyled, and the
\* ellipsis frame last.
C10_ViewStyles ==
  Constructed =>
    LET n == Min(args.initialCharsSize, maxCyclingChars)
        frame == ellipsisFrames[ellipsis + 1]
    IN  /\ Len(View) = Len(chars) + Len(frame)
        /\ \A i \in 1 .. Len(chars) :
             /\ View[i].rune = chars[i].currentValue
             /\ i <= n => View[i].style =
                  (IF n >= minRampSize /\ args.profile = "TrueColor"
                   THEN [kind |-> "foreground", num |-> i - 1, den |-> n]
                   ELSE cyclingCharsStyle)
             /\ i > n => View[i].style = NoStyle
        /\ \A j \in 1 .. Len(frame) :
             View[Len(chars) + j] = [style |-> NoStyle, rune |-> Dot]

\* A frame with gradient-styled random glyphs, the label resolved and a
\* non-empty ellipsis.
C10_Witness ==
  /\ pc = "running"
  /\ Len(ramp) > 0
  /\ ellipsis > 0
  /\ \E i \in PlaceholderIdx : chars[i].currentValue \in Range(charRunes)

\* The clock readings of a run
Readings == {t \in 0 .. MaxTime : t % Quantum = 0}

\* C11 as claimed: a character whose finalValue is present is at no clock
\* reading in the cycling state, and never shows a random alphabet glyph.
C11_NeverCycling ==
  Constructed =>
    \A i \in LabelIdx :
      /\ \A t \in Readings : state(chars[i], start, start + t) # charCyclingState
      /\ chars[i].currentValue \notin Range(charRunes)

\* The value the state function prescribes for c at clock reading t
Prescribed(c, t, v) ==
  LET st == state(c, start, t)
  IN  \/ st = charInitialState /\ v = Dot
      \/ st = charCyclingState /\ v \in Range(charRunes)
      \/ st = charEndOfLifeState /\ v = c.finalValue

\* C12: in every state from construction on, each character's currentValue
\* is the value the state function prescribes at a clock reading between
\* the latest primary tick (or construction, before the first one) and now:
\* '.' in the initial state, a member of the alphabet in the cycling state,
\* finalValue at end of life; View shows these glyphs.
C12_PrescribedGlyph ==
  Constructed =>
    \A i \in 1 .. Len(chars) :
      /\ \E t \in Readings :
           /\ start + t >= (IF tickTime >= 0 THEN tickTime ELSE start)
           /\ start + t <= now
           /\ Prescribed(chars[i], start + t, chars[i].currentValue)
      /\ View[i].rune = chars[i].currentValue

\* C13: in the state the tick that sets ellipsisStarted returns, and in
\* every later state, every label character shows its finalValue.
C13_StartedWithResolvedGlyphs ==
  ellipsisStarted => \A i \in LabelIdx : chars[i].currentValue = chars[i].finalValue

\* C14: after a primary tick taken up later than start + 7 * 60 ms,
\* ellipsisStarted is true and the frame ends with the label's runes,
\* followed by the ellipsis frame only.
C14_StartedByLongestDelay ==
  (pc = "running" /\ tickTime > start + makeDelay(7, 60)) =>
    /\ ellipsisStarted
    /\ \A i \in LabelIdx : View[i].rune = chars[i].finalValue
    /\ SubSeq(View, Len(chars) + 1, Len(View)) = ellipsisView

\* The fields of the characters that construction sets
Fixed(cs) ==
  [i \in 1 .. Len(cs) |->
     [finalValue |-> cs[i].finalValue, initialDelay |-> cs[i].initialDelay,
      lifetime |-> cs[i].lifetime]]

\* C15: a message that is neither tick leaves every variable unchanged; a
\* spinner tick changes the ellipsis frame only and schedules only the next
\* spinner tick; a primary tick leaves start, the label, the ramp, the
\* ellipsis frame and every character's finalValue, initialDelay and
\* lifetime unchanged; no step after construction changes start.
C15_FrameConditions ==
  [][ /\ UpdateOther => UNCHANGED vars
      /\ UpdateSpinner =>
           /\ ellipsis' # ellipsis
           /\ UNCHANGED << start, chars, ramp, label, ellipsisStarted >>
           /\ UNCHANGED << pendingStep, pendingSpinner, startCmds >>
      /\ UpdateStep =>
           /\ UNCHANGED << start, label, ramp, ellipsis >>
           /\ Fixed(chars') = Fixed(chars)
      /\ Constructed => start' = start ]_vars

\* Spinner ticks and primary ticks were handled, for a label character that
\* has a delay and a lifetime and shows its finalValue.
C15_Witness ==
  /\ ellipsis > 1
  /\ tickTime > start
  /\ \E i \in LabelIdx :
       /\ chars[i].initialDelay > 0
       /\ chars[i].lifetime > 0
       /\ chars[i].currentValue = chars[i].finalValue

\* C16: makeGradientText returns for every text; a text shorter than
\* minSize comes back unchanged, and any other text comes back as one styled
\* glyph per character, in order, each in the ramp colour of its position.
C16_GradientText ==
  pc = "text" =>
    /\ ~gradientText.panic
    /\ Len(str) < minSize =>
         (~gradientText.styled /\ gradientText.plain = str)
    /\ Len(str) >= minSize =>
         LET rs == runes(str)
             colors == makeGradientRamp(Len(rs))
         IN  /\ gradientText.styled
             /\ Len(gradientText.glyphs) = Len(rs)
             /\ \A i \in 1 .. Len(rs) :
                  gradientText.glyphs[i] = Render(Foreground(colors[i]), rs[i])

\* C17: makeGradientRamp(L) returns L colours, colour i (from 0) at the
\* blend parameter i/L: the first colour is at parameter 0, the start
\* colour, the last at (L-1)/L, and no parameter reaches 1. The parameters
\* are fixed by L alone, so the result is.
C17_GradientRamp ==
  pc = "ramp" =>
    /\ Len(gradientRamp) = rampLength
    /\ \A i \in 1 .. Len(gradientRamp) :
         LET num == gradientRamp[i][1]
             den == gradientRamp[i][2]
         IN  /\ den > 0
             /\ num * rampLength = (i - 1) * den
             /\ num >= 0
             /\ num < den
    /\ rampLength >= 1 =>
         /\ gradientRamp[1][1] = 0
         /\ gradientRamp[rampLength][1] * rampLength
              = (rampLength - 1) * gradientRamp[rampLength][2]

\* A ramp of the longest length was returned; its last colour is not the
\* start colour.
C17_Witness ==
  /\ pc = "ramp"
  /\ rampLength = MaxLength
  /\ Len(gradientRamp) = MaxLength
  /\ gradientRamp[MaxLength][1] > 0
====
